---- MODULE Spec2Model ----
(***************************************************************************)
(* Model of swapvec's write phase (src/src/swapvec.rs, src/src/error.rs):  *)
(* a SwapVec<u8> built by with_config, grown by push and consume, and      *)
(* handed to the iterator by into_iter.  The temporary file is a sequence  *)
(* of bytes; every fallible call (tempfile(), bincode::serialize,          *)
(* File::write_all, File::flush) may fail.  The iterator's replay and the  *)
(* compression codec are not part of these sources and follow the          *)
(* specification.                                                          *)
(***************************************************************************)
EXTENDS Integers, Sequences, FiniteSets, TLC

\* ---- bounds of the model ------------------------------------------------
MaxBatchSize == 2
MaxSwapAfter == 3
MaxInserted == 3
MaxElem == 1
MaxConsume == 2
MaxPartial == 1
\* the bounds of the runs that only push (SpecPush)
MaxPushes == 6
MaxPushSwapAfter == 4

Elems == 0..MaxElem

VARIABLES
    vector,     \* SwapVec.vector: the in-memory queue, front first
    tempfile,   \* SwapVec.tempfile: Option<CheckedFile>
    config,     \* SwapVec.config
    pc,         \* "idle" | "consume" (inside consume's loop) | "panicked" | "moved"
    it,         \* the not yet consumed part of the iterator given to consume
    ret,        \* what the last call returned: "none" | "Ok" | an error | "panic"
    iter,       \* the arguments into_iter gave to SwapVecIter::new
    inserted,   \* history: every element given to push_back, in order
    batches,    \* history: the batch of every BatchInfo record, in order
    fault,      \* history: the failure that hit the last call ("none" if none)
    failed,     \* history: some call did not return Ok
    writes,     \* history: how many times self.file.write_all(buffer) succeeded
    appends,    \* history: how many times CheckedFile::write_all returned Ok
    opens       \* history: how many times tempfile::tempfile() gave a file

vars == <<vector, tempfile, config, pc, it, ret, iter, inserted, batches, fault, failed,
          writes, appends, opens>>

\* ---- values ---------------------------------------------------------------
Min(a, b) == IF a <= b THEN a ELSE b
Max(a, b) == IF a >= b THEN a ELSE b

RECURSIVE Flatten(_)
Flatten(ss) == IF ss = <<>> THEN <<>> ELSE Head(ss) \o Flatten(Tail(ss))

RECURSIVE SumBytes(_)
SumBytes(infos) == IF infos = <<>> THEN 0 ELSE Head(infos).bytes + SumBytes(Tail(infos))

\* a buffer that is built with its file already created
NoFile_created == [is_some |-> TRUE, file |-> <<>>, batch_info |-> <<>>]

\* Option<CheckedFile>
NoFile == [is_some |-> FALSE, file |-> <<>>, batch_info |-> <<>>]
NewCheckedFile == [is_some |-> TRUE, file |-> <<>>, batch_info |-> <<>>]

CompressionOpts == {"None", "Lz4", "Deflate"}

SwapVecConfig == [swap_after : 0..MaxSwapAfter, batch_size : 0..MaxBatchSize,
                  compression : CompressionOpts]

\* impl Default for SwapVecConfig
DefaultConfig == [swap_after |-> 32 * 1024 * 1024, batch_size |-> 32 * 1024,
                  compression |-> "None"]

\* The failures the environment can inject into one call of after_push_work.
Faults == {"none", "tempfile", "serialize", "write", "flush"}
Partials == 0..MaxPartial
\* How many bytes a failing File::write_all wrote; it matters to no other failure.
PartialsOf(flt) == IF flt = "write" THEN Partials ELSE {0}

\* ---- error.rs -------------------------------------------------------------
\* impl From<std::io::Error> for SwapVecError: todo!() panics.
FromIoError == "panic"
\* impl From<Box<bincode::ErrorKind>> for SwapVecError
FromBincodeError == "SerializationFailed"

\* ---- serialization, compression, hashing ---------------------------------
\* bincode::serialize(&Vec<u8>): the length as a little-endian u64, then the bytes.
serialize(batch) ==
    <<Len(batch) % 256, (Len(batch) \div 256) % 256, 0, 0, 0, 0, 0, 0>> \o batch

\* A lossless run-length coding: (count, byte) pairs.
RECURSIVE RunLength(_)
RunLength(bytes) ==
    IF bytes = <<>> THEN <<>>
    ELSE LET b == Head(bytes)
             n == CHOOSE k \in 1..Len(bytes) :
                     /\ \A i \in 1..k : bytes[i] = b
                     /\ (k = Len(bytes) \/ bytes[k + 1] # b)
         IN <<n, b>> \o RunLength(SubSeq(bytes, n + 1, Len(bytes)))

\* Option<Compression>::compress
compress(compression, buffer) ==
    CASE compression = "None" -> buffer
      [] compression = "Lz4" -> RunLength(buffer)
      [] compression = "Deflate" -> <<120>> \o RunLength(buffer)

\* DefaultHasher over a Vec<u8>: the length, then every byte, folded into a digest.
RECURSIVE HashBytes(_, _)
HashBytes(h, bytes) ==
    IF bytes = <<>> THEN h
    ELSE HashBytes((h * 31 + Head(bytes) + 1) % 65521, Tail(bytes))

DefaultHash(buffer) == HashBytes(Len(buffer) % 65521, buffer)

\* ---- CheckedFile -----------------------------------------------------------
\* write_all that writes the bytes but never pushes the BatchInfo record
write_all_unrecorded(cf, buffer, flt, partial) ==
    [cf |-> [cf EXCEPT !.file = @ \o buffer],
     res |-> IF flt \in {"write", "flush"} THEN "Err" ELSE "Ok",
     written |-> flt # "write", recorded |-> FALSE]

\* write_all that records one byte more than it wrote
write_all_wrong_len(cf, buffer, flt, partial) ==
    IF flt = "write"
    THEN [cf |-> [cf EXCEPT !.file = @ \o SubSeq(buffer, 1, Min(partial, Len(buffer) - 1))],
          res |-> "Err", written |-> FALSE, recorded |-> FALSE]
    ELSE [cf |-> [cf EXCEPT !.file = @ \o buffer,
                            !.batch_info = Append(@, [hash |-> DefaultHash(buffer),
                                                      bytes |-> Len(buffer) + 1])],
          res |-> IF flt = "flush" THEN "Err" ELSE "Ok",
          written |-> TRUE, recorded |-> TRUE]

\* write_all that pushes the BatchInfo record before it writes the bytes
write_all_record_first(cf, buffer, flt, partial) ==
    LET info == [hash |-> DefaultHash(buffer), bytes |-> Len(buffer)]
    IN IF flt = "write"
       THEN [cf |-> [cf EXCEPT !.file = @ \o SubSeq(buffer, 1, Min(partial, Len(buffer) - 1)),
                               !.batch_info = Append(@, info)],
             res |-> "Err", written |-> FALSE, recorded |-> TRUE]
       ELSE [cf |-> [cf EXCEPT !.file = @ \o buffer, !.batch_info = Append(@, info)],
             res |-> IF flt = "flush" THEN "Err" ELSE "Ok",
             written |-> TRUE, recorded |-> TRUE]

\* CheckedFile::write_all: the result, the file after it, and whether a record was pushed.
write_all(cf, buffer, flt, partial) ==
    IF flt = "write"
    THEN \* self.file.write_all(buffer)? fails after writing a strict prefix
         [cf |-> [cf EXCEPT !.file = @ \o SubSeq(buffer, 1, Min(partial, Len(buffer) - 1))],
          res |-> "Err", written |-> FALSE, recorded |-> FALSE]
    ELSE [cf |-> [cf EXCEPT !.file = @ \o buffer,
                            !.batch_info = Append(@, [hash |-> DefaultHash(buffer),
                                                      bytes |-> Len(buffer)])],
          res |-> IF flt = "flush" THEN "Err" ELSE "Ok",
          written |-> TRUE, recorded |-> TRUE]

\* CheckedFile::file_size
checked_file_size(cf) == SumBytes(cf.batch_info)

\* ---- SwapVec ---------------------------------------------------------------
\* a batch taken with pop_back instead of pop_front
pop_batch_back(v, n) ==
    [batch |-> [i \in 1..Min(n, Len(v)) |-> v[Len(v) + 1 - i]],
     rest |-> SubSeq(v, 1, Len(v) - n),
     ok |-> n <= Len(v)]

\* a batch of one element too few
pop_batch_less(v, n) ==
    [batch |-> SubSeq(v, 1, n - 1),
     rest |-> SubSeq(v, Max(n, 1), Len(v)),
     ok |-> n <= Len(v)]

\* a batch of one element too many
pop_batch_more(v, n) ==
    [batch |-> SubSeq(v, 1, Min(n + 1, Len(v))),
     rest |-> SubSeq(v, n + 2, Len(v)),
     ok |-> n <= Len(v)]

\* (0..batch_size).map(|_| self.vector.pop_front().unwrap()).collect()
RECURSIVE pop_batch(_, _)
pop_batch(v, n) ==
    IF n = 0 THEN [batch |-> <<>>, rest |-> v, ok |-> TRUE]
    ELSE IF v = <<>> THEN [batch |-> <<>>, rest |-> v, ok |-> FALSE]
    ELSE LET r == pop_batch(Tail(v), n - 1)
         IN [batch |-> <<Head(v)>> \o r.batch, rest |-> r.rest, ok |-> r.ok]

\* The state a method works on: the struct's fields and the histories.
Self == [vector |-> vector, tempfile |-> tempfile, config |-> config,
         batches |-> batches, ret |-> "Ok", fault |-> "none",
         writes |-> writes, appends |-> appends, opens |-> opens]

\* the first early return taken with one element too few in the queue
within_batch_strict(self) == Len(self.vector) < self.config.batch_size

\* the first early return taken with one element too many in the queue
within_batch_loose(self) == Len(self.vector) <= self.config.batch_size + 1

\* after_push_work's first early return: the queue holds at most one batch
within_batch(self) == Len(self.vector) <= self.config.batch_size

\* the second early return taken whether or not the file exists
within_swap_always(self) == Len(self.vector) <= self.config.swap_after

\* the second early return taken one element too early
within_swap_strict(self) ==
    ~self.tempfile.is_some /\ Len(self.vector) < self.config.swap_after

\* after_push_work's second early return: no file yet and within swap_after
within_swap(self) ==
    ~self.tempfile.is_some /\ Len(self.vector) <= self.config.swap_after

\* a fresh file for every flush
open_tempfile_always(self) == [cf |-> NewCheckedFile, opened |-> TRUE]

\* if self.tempfile.is_none() { self.tempfile = Some(CheckedFile { .. }) }:
\* the file to write to, and whether tempfile::tempfile() was called for it
open_tempfile(self) ==
    IF self.tempfile.is_some THEN [cf |-> self.tempfile, opened |-> FALSE]
    ELSE [cf |-> NewCheckedFile, opened |-> TRUE]

\* SwapVec::after_push_work
after_push_work(self, flt, partial) ==
    IF within_batch(self) THEN [self EXCEPT !.ret = "Ok"]
    ELSE IF within_swap(self) THEN [self EXCEPT !.ret = "Ok"]
    ELSE IF ~self.tempfile.is_some /\ flt = "tempfile"
    THEN [self EXCEPT !.ret = FromIoError, !.fault = flt]
    ELSE
      LET o == open_tempfile(self)
          tf == o.cf
          n == IF o.opened THEN self.opens + 1 ELSE self.opens
          p == pop_batch(self.vector, self.config.batch_size)
      IN IF ~p.ok
         THEN [self EXCEPT !.tempfile = tf, !.opens = n, !.vector = p.rest, !.ret = "panic"]
         ELSE IF flt = "serialize"
         THEN [self EXCEPT !.tempfile = tf, !.opens = n, !.vector = p.rest,
                           !.ret = FromBincodeError, !.fault = flt]
         ELSE IF ~tf.is_some
         THEN \* self.tempfile.as_mut().unwrap() on None
              [self EXCEPT !.tempfile = tf, !.opens = n, !.vector = p.rest, !.ret = "panic"]
         ELSE
           LET buffer == serialize(p.batch)
               compressed == compress(self.config.compression, buffer)
               w == write_all(tf, compressed, flt, partial)
           IN [self EXCEPT !.tempfile = w.cf,
                           !.opens = n,
                           !.vector = p.rest,
                           !.batches = IF w.recorded THEN Append(@, p.batch) ELSE @,
                           !.writes = IF w.written THEN @ + 1 ELSE @,
                           !.appends = IF w.res = "Ok" THEN @ + 1 ELSE @,
                           !.ret = IF w.res = "Ok" THEN "Ok" ELSE FromIoError,
                           !.fault = IF w.res = "Ok" THEN "none" ELSE flt]

\* SwapVec::push
push(self, element, flt, partial) ==
    after_push_work([self EXCEPT !.vector = Append(@, element)], flt, partial)

\* One iteration of the loop of SwapVec::consume
consume_element(self, element, flt1, partial1, flt2, partial2) ==
    LET r == push(self, element, flt1, partial1)
    IN IF r.ret # "Ok" THEN r ELSE after_push_work(r, flt2, partial2)

\* SwapVec::written_to_file
written_to_file == tempfile.is_some

\* SwapVec::file_size (None is -1)
file_size == IF tempfile.is_some THEN checked_file_size(tempfile) ELSE -1

\* SwapVec::batches_written
batches_written == IF tempfile.is_some THEN Len(tempfile.batch_info) ELSE 0

\* Debug for SwapVec: elements_in_ram
elements_in_ram == Len(vector)

\* elements_in_file reported as the number of batches
elements_in_file_batches == IF tempfile.is_some THEN Len(tempfile.batch_info) ELSE 0

\* Debug for SwapVec: elements_in_file
elements_in_file ==
    (IF tempfile.is_some THEN Len(tempfile.batch_info) ELSE 0) * config.batch_size

\* ---- the state machine ------------------------------------------------------
\* SwapVec::with_config and Default for SwapVec
Init ==
    /\ config \in SwapVecConfig \cup {DefaultConfig}
    /\ vector = <<>>
    /\ tempfile = NoFile
    /\ pc = "idle"
    /\ it = <<>>
    /\ ret = "none"
    /\ iter = [taken |-> FALSE, tempfile |-> NoFile, vector |-> <<>>]
    /\ inserted = <<>>
    /\ batches = <<>>
    /\ fault = "none"
    /\ failed = FALSE
    /\ writes = 0
    /\ appends = 0
    /\ opens = 0

\* The struct and the histories after a method left them as r.
Store(r) ==
    /\ vector' = r.vector
    /\ tempfile' = r.tempfile
    /\ batches' = r.batches
    /\ ret' = r.ret
    /\ fault' = r.fault
    /\ failed' = (failed \/ r.ret # "Ok")
    /\ writes' = r.writes
    /\ appends' = r.appends
    /\ opens' = r.opens

Push ==
    /\ pc = "idle"
    /\ Len(inserted) < MaxInserted
    /\ \E element \in Elems, flt \in Faults :
       \E partial \in PartialsOf(flt) :
         LET r == push(Self, element, flt, partial)
         IN /\ Store(r)
            /\ inserted' = Append(inserted, element)
            /\ pc' = IF r.ret = "panic" THEN "panicked" ELSE "idle"
    /\ UNCHANGED <<config, it, iter>>

\* consume is called with an iterator
ConsumeCall ==
    /\ pc = "idle"
    /\ \E n \in 0..Min(MaxConsume, MaxInserted - Len(inserted)) :
         \E s \in [1..n -> Elems] : it' = s
    /\ pc' = "consume"
    /\ UNCHANGED <<vector, tempfile, config, ret, iter, inserted, batches, fault, failed,
                   writes, appends, opens>>

\* the loop body of consume for the next element
ConsumeNext ==
    /\ pc = "consume"
    /\ it # <<>>
    /\ \E flt1 \in Faults, flt2 \in Faults :
       \E partial1 \in PartialsOf(flt1), partial2 \in PartialsOf(flt2) :
         LET r == consume_element(Self, Head(it), flt1, partial1, flt2, partial2)
         IN /\ Store(r)
            /\ inserted' = Append(inserted, Head(it))
            /\ pc' = IF r.ret = "panic" THEN "panicked"
                     ELSE IF r.ret = "Ok" THEN "consume" ELSE "idle"
            /\ it' = IF r.ret = "Ok" THEN Tail(it) ELSE <<>>
    /\ UNCHANGED <<config, iter>>

\* the iterator is exhausted: consume returns Ok(())
ConsumeReturn ==
    /\ pc = "consume"
    /\ it = <<>>
    /\ pc' = "idle"
    /\ ret' = "Ok"
    /\ fault' = "none"
    /\ UNCHANGED <<vector, tempfile, config, it, iter, inserted, batches, failed,
                   writes, appends, opens>>

\* IntoIterator for SwapVec: into_iter
IntoIter ==
    /\ pc = "idle"
    /\ iter' = [taken |-> TRUE, tempfile |-> tempfile, vector |-> vector]
    /\ pc' = "moved"
    /\ UNCHANGED <<vector, tempfile, config, it, ret, inserted, batches, fault, failed,
                   writes, appends, opens>>

Next == Push \/ ConsumeCall \/ ConsumeNext \/ ConsumeReturn \/ IntoIter

Spec == Init /\ [][Next]_vars

\* ---- a caller that only pushes, and whose pushes all succeed ----------------
PushConfigs == [swap_after : 0..MaxPushSwapAfter, batch_size : 0..MaxBatchSize,
                compression : CompressionOpts]

\* SwapVec::with_config
InitPush ==
    /\ config \in PushConfigs
    /\ vector = <<>>
    /\ tempfile = NoFile
    /\ pc = "idle"
    /\ it = <<>>
    /\ ret = "none"
    /\ iter = [taken |-> FALSE, tempfile |-> NoFile, vector |-> <<>>]
    /\ inserted = <<>>
    /\ batches = <<>>
    /\ fault = "none"
    /\ failed = FALSE
    /\ writes = 0
    /\ appends = 0
    /\ opens = 0

\* SwapVec::push, every fallible call succeeding
PushOk ==
    /\ pc = "idle"
    /\ Len(inserted) < MaxPushes
    /\ \E element \in Elems :
         LET r == push(Self, element, "none", 0)
         IN /\ Store(r)
            /\ inserted' = Append(inserted, element)
            /\ pc' = IF r.ret = "panic" THEN "panicked" ELSE "idle"
    /\ UNCHANGED <<config, it, iter>>

NextPush == PushOk

SpecPush == InitPush /\ [][NextPush]_vars

\* ---- the claims -------------------------------------------------------------
\* Everything the buffer holds: the recorded batches in order, then the queue.
Committed == Flatten(batches) \o vector

\* the larger of the two thresholds of the configuration
Threshold == Max(config.swap_after, config.batch_size)

\* C1: with batch_size >= 1, swap_after >= 1 and no failed call, the recorded
\* batches in the order they were written, followed by the queue front to back,
\* are exactly the inserted values in insertion order, one batch per ledger
\* record; the same holds of what into_iter hands to the iterator.
C1_OrderPreserved ==
    (~failed /\ config.batch_size >= 1 /\ config.swap_after >= 1) =>
        /\ Committed = inserted
        /\ Len(batches) = Len(tempfile.batch_info)
        /\ iter.taken =>
             /\ Flatten(batches) \o iter.vector = inserted
             /\ iter.tempfile = tempfile

C1_Witness ==
    /\ ~failed /\ config.batch_size >= 1 /\ config.swap_after >= 1
    /\ iter.taken
    /\ Len(batches) >= 1
    /\ iter.vector # <<>>
    /\ Len(inserted) = MaxInserted
    /\ inserted[1] # inserted[2]

\* C2: as long as at most max(swap_after, batch_size) elements were inserted
\* there is no file (written_to_file() false, file_size() None,
\* batches_written() 0), and from the insertion number
\* max(swap_after, batch_size) + 1 on there is one, unless creating it failed.
C2_FileCreation ==
    /\ Len(inserted) <= Threshold =>
         (~written_to_file /\ file_size = -1 /\ batches_written = 0)
    /\ (Len(inserted) > Threshold /\ fault # "tempfile") => written_to_file

C2_Witness ==
    /\ written_to_file
    /\ Len(inserted) = Threshold + 1
    /\ config.swap_after > config.batch_size
    /\ config.batch_size >= 1
    /\ ret = "Ok"

\* What a successful call of after_push_work on s made of it, if it flushed.
FlushIsExact(s, r) ==
    LET bs == s.config.batch_size
    IN Len(r.tempfile.batch_info) # Len(s.tempfile.batch_info) =>
         /\ Len(r.tempfile.batch_info) = Len(s.tempfile.batch_info) + 1
         /\ r.batches = Append(s.batches, SubSeq(s.vector, 1, bs))
         /\ r.vector = SubSeq(s.vector, bs + 1, Len(s.vector))
         /\ Len(s.vector) - Len(r.vector) = bs
         /\ ~s.tempfile.is_some =>
              /\ Len(s.vector) = Max(s.config.swap_after, bs) + 1
              /\ Len(r.vector) = Max(s.config.swap_after, bs) + 1 - bs

\* C3: every successful flush, whether made by push or by consume's second call
\* of after_push_work, removes exactly the batch_size oldest elements of the
\* queue in queue order and appends exactly one record; the first flush happens
\* with max(swap_after, batch_size) + 1 elements in the queue and leaves
\* max(swap_after, batch_size) + 1 - batch_size of them.
C3_FlushExact ==
    pc \in {"idle", "consume"} =>
        \A element \in Elems :
            LET s1 == [Self EXCEPT !.vector = Append(@, element)]
                r1 == after_push_work(s1, "none", 0)
                r2 == after_push_work(r1, "none", 0)
            IN FlushIsExact(s1, r1) /\ FlushIsExact(r1, r2)

C3_Witness ==
    /\ config.batch_size = 2 /\ config.swap_after = 2
    /\ Len(inserted) = 3
    /\ written_to_file /\ batches_written = 1
    /\ batches = <<SubSeq(inserted, 1, 2)>>
    /\ vector = <<inserted[3]>>
    /\ ret = "Ok"

\* C4: every inserted element, through push or through one iteration of
\* consume, raises batches_written() by at most 1 and takes at most batch_size
\* elements out of the queue (here for batch_size >= 1 and a successful call).
C4_OneFlushPerInsertion ==
    [][(inserted' # inserted /\ ret' = "Ok" /\ config.batch_size >= 1) =>
          /\ batches_written' <= batches_written + 1
          /\ Len(vector) + 1 - Len(vector') <= config.batch_size]_vars

\* the whole of consume(seq) and push of each value of seq, without failures
RECURSIVE consume_all(_, _)
consume_all(self, seq) ==
    IF seq = <<>> THEN self
    ELSE consume_all(consume_element(self, Head(seq), "none", 0, "none", 0), Tail(seq))

RECURSIVE push_all(_, _)
push_all(self, seq) ==
    IF seq = <<>> THEN self
    ELSE push_all(push(self, Head(seq), "none", 0), Tail(seq))

ConsumeSeqs == UNION {[1..n -> Elems] : n \in 0..MaxConsume}

\* C5: from every state in which a method can be called, consume(seq) leaves
\* the buffer (queue, file, ledger, batches) as push of each value of seq in
\* order does (here for batch_size >= 1 and swap_after >= 1).
C5_ConsumeIsPushEach ==
    (pc = "idle" /\ config.batch_size >= 1 /\ config.swap_after >= 1) =>
        \A seq \in ConsumeSeqs : consume_all(Self, seq) = push_all(Self, seq)

C7_IoFailureReturned ==
    fault \in {"tempfile", "write", "flush"} =>
        (pc # "panicked" /\ ret \in {"MissingPermissions", "OutOfDisk", "Other"})

\* C8: after an insertion returned an error because its flush failed, every
\* value inserted so far is still in the queue or in a recorded batch, in
\* insertion order.
C8_FailedFlushKeepsElements ==
    (ret = "SerializationFailed" /\ fault = "serialize") => Committed = inserted

\* C9: written_to_file() never goes back to false, batches_written() and
\* file_size() never decrease, and the records already in the ledger stay as
\* they are, in every step.
C9_SpillMonotonic ==
    [][/\ written_to_file => written_to_file'
       /\ batches_written' >= batches_written
       /\ file_size' >= file_size
       /\ Len(tempfile'.batch_info) >= Len(tempfile.batch_info)
       /\ SubSeq(tempfile'.batch_info, 1, Len(tempfile.batch_info)) = tempfile.batch_info]_vars

C9_Witness ==
    /\ batches_written >= 2
    /\ tempfile.batch_info[1] # tempfile.batch_info[2]
    /\ failed

\* the bytes of the file the i-th record stands for
BatchBytes(i) ==
    LET start == SumBytes(SubSeq(tempfile.batch_info, 1, i - 1))
    IN SubSeq(tempfile.file, start + 1, start + tempfile.batch_info[i].bytes)

RECURSIVE RunLengthDecode(_)
RunLengthDecode(pairs) ==
    IF Len(pairs) < 2 THEN <<>>
    ELSE [i \in 1..pairs[1] |-> pairs[2]] \o RunLengthDecode(SubSeq(pairs, 3, Len(pairs)))

\* Compression Adapter: decompress
decompress(compression, bytes) ==
    CASE compression = "None" -> bytes
      [] compression = "Lz4" -> RunLengthDecode(bytes)
      [] compression = "Deflate" -> RunLengthDecode(Tail(bytes))

\* the elements behind a serialized batch: the length prefix, then the bytes
deserialize(bytes) == SubSeq(bytes, 9, 8 + bytes[1] + 256 * bytes[2])

\* Replay of the batches from record i on, reading the file from offset start:
\* each batch is read by its recorded length, checked against its digest,
\* decompressed and decoded; a wrong digest ends the replay with an error.
RECURSIVE replay_batches(_, _, _, _)
replay_batches(cf, compression, i, start) ==
    IF i > Len(cf.batch_info) THEN [items |-> <<>>, error |-> "none"]
    ELSE LET info == cf.batch_info[i]
             bytes == SubSeq(cf.file, start + 1, start + info.bytes)
         IN IF Len(bytes) # info.bytes \/ DefaultHash(bytes) # info.hash
            THEN [items |-> <<>>, error |-> "WrongChecksum"]
            ELSE LET r == replay_batches(cf, compression, i + 1, start + info.bytes)
                 IN [items |-> deserialize(decompress(compression, bytes)) \o r.items,
                     error |-> r.error]

\* Replay Iterator: the batches of the file, oldest first, then the queue
replay(tf, queue, compression) ==
    IF ~tf.is_some THEN [items |-> queue, error |-> "none"]
    ELSE LET r == replay_batches(tf, compression, 1, 0)
         IN [items |-> IF r.error = "none" THEN r.items \o queue ELSE r.items,
             error |-> r.error]

\* C11: a buffer into which nothing was inserted, whatever its configuration
\* (the default one included), has an empty queue and no file
\* (written_to_file() false, file_size() None, batches_written() 0); into_iter
\* hands the iterator no file and an empty queue, whose replay is empty.
C11_EmptyBuffer ==
    inserted = <<>> =>
        /\ vector = <<>>
        /\ ~written_to_file /\ file_size = -1 /\ batches_written = 0
        /\ iter.taken =>
             /\ ~iter.tempfile.is_some
             /\ iter.tempfile.batch_info = <<>>
             /\ iter.vector = <<>>
             /\ replay(iter.tempfile, iter.vector, config.compression)
                  = [items |-> <<>>, error |-> "none"]

C11_Witness ==
    /\ inserted = <<>>
    /\ iter.taken
    /\ ret = "Ok"
    /\ config = DefaultConfig

\* the queue length right after the first flush of a caller that only pushes
LengthAtOpening == Threshold + 1 - config.batch_size

\* C12 as stated, with a deadline: for batch_size >= 1 and swap_after >= 1,
\* once the file is open and as many further pushes were made as the queue held
\* when it was opened, the queue holds at most batch_size elements after each
\* push (and so at most batch_size + 1 at any moment).
C12_QueueBoundedLongTerm ==
    (/\ config.batch_size >= 1 /\ config.swap_after >= 1
     /\ written_to_file
     /\ Len(inserted) >= Threshold + 1 + LengthAtOpening) =>
        Len(vector) <= config.batch_size

\* C12 amended: for batch_size >= 2 the pushes after the opening of the file
\* drain the queue: after max(0, max(swap_after, batch_size) + 1 - 2 * batch_size)
\* further pushes the queue holds at most batch_size elements after every push,
\* hence at most batch_size + 1 at any moment.  For batch_size = 1 each push
\* pops the one element it added: the queue keeps max(swap_after, 1) elements.
C12_QueueDrains ==
    (written_to_file /\ config.swap_after >= 1) =>
        /\ (/\ config.batch_size >= 2
            /\ Len(inserted) >= Threshold + 1 + Max(0, LengthAtOpening - config.batch_size)) =>
               /\ Len(vector) <= config.batch_size
               /\ \A element \in Elems : Len(Append(vector, element)) <= config.batch_size + 1
        /\ config.batch_size = 1 => Len(vector) = Threshold

C12_Witness ==
    /\ config.batch_size = 2 /\ config.swap_after = 4
    /\ written_to_file
    /\ Len(inserted) = 6
    /\ Len(vector) = 2
    /\ batches_written = 2

\* C13: a push that appends to a queue of n - 1 elements flushes, once the file
\* is open, exactly when n > batch_size, whatever swap_after is; before the file
\* is open it flushes exactly when n > batch_size and n > swap_after.
C13_SwapAfterGatesFirstFlush ==
    [][(pc = "idle" /\ inserted' # inserted) =>
          LET n == Len(vector) + 1
              flushed == batches_written' = batches_written + 1
                         /\ Len(vector') = n - config.batch_size
              untouched == batches_written' = batches_written /\ Len(vector') = n
                           /\ tempfile' = tempfile
          IN IF written_to_file
             THEN IF n > config.batch_size THEN flushed ELSE untouched
             ELSE IF n > config.batch_size /\ n > config.swap_after
                  THEN flushed ELSE untouched]_vars

C13_Witness ==
    /\ config.batch_size = 2 /\ config.swap_after = 3
    /\ Len(inserted) = 5
    /\ batches_written = 2
    /\ Len(vector) = 1

\* C14 as stated: the number of ledger records is the number of appends
\* (CheckedFile::write_all) that returned Ok, also after one that failed
\* (here for batch_size >= 1).
C14_RecordAfterFlush ==
    config.batch_size >= 1 => Len(tempfile.batch_info) = appends

\* C14 amended: the record is pushed once the bytes are written and before the
\* write is flushed: the number of ledger records is the number of appends
\* whose bytes were written completely; an append whose write failed leaves
\* the ledger as it was, one whose flush failed has left its record.
C14_RecordAfterWrite ==
    /\ Len(tempfile.batch_info) = writes
    /\ fault = "write" => Len(tempfile.batch_info) = appends
    /\ fault = "flush" => Len(tempfile.batch_info) = appends + 1
    /\ fault \notin {"write", "flush"} => Len(tempfile.batch_info) = appends

C14_Witness ==
    /\ fault = "flush"
    /\ appends = 1
    /\ Len(tempfile.batch_info) = 2
    /\ Len(tempfile.file) = SumBytes(tempfile.batch_info)

\* C15: the file is opened at most once: there is a file exactly when one
\* tempfile::tempfile() call succeeded, no step replaces it (its bytes and its
\* ledger are only extended), and into_iter hands that file with its whole
\* ledger and the remaining queue to the iterator.
C15_FileOpenedOnce ==
    /\ [](/\ opens <= 1
          /\ written_to_file <=> opens = 1
          /\ iter.taken => (iter.tempfile = tempfile /\ iter.vector = vector))
    /\ [][/\ opens' >= opens
          /\ written_to_file =>
               /\ opens' = opens
               /\ SubSeq(tempfile'.file, 1, Len(tempfile.file)) = tempfile.file
               /\ SubSeq(tempfile'.batch_info, 1, Len(tempfile.batch_info))
                    = tempfile.batch_info]_vars

C15_Witness ==
    /\ iter.taken
    /\ iter.tempfile.is_some
    /\ Len(iter.tempfile.batch_info) = 2
    /\ iter.vector # <<>>
    /\ opens = 1

\* C16: no buffer that takes insertions has batch_size = 0 or swap_after = 0
\* (with_config rejects or clamps such a configuration), and no recorded batch
\* has zero elements.
C16_CountsPositive ==
    inserted # <<>> =>
        /\ config.batch_size >= 1
        /\ config.swap_after >= 1
        /\ \A i \in 1..Len(batches) : batches[i] # <<>>

\* C17: after successful insertions with batch_size >= 1, the Debug summary's
\* elements_in_ram plus elements_in_file is the number of elements inserted,
\* and elements_in_file is the number of elements in the recorded batches.
C17_DebugCountsAccount ==
    (~failed /\ config.batch_size >= 1) =>
        /\ elements_in_ram + elements_in_file = Len(inserted)
        /\ elements_in_file = Len(Flatten(batches))

C17_Witness ==
    /\ ~failed
    /\ config.batch_size = 2
    /\ elements_in_file = 2
    /\ elements_in_ram = 1
    /\ Len(inserted) = 3

\* What a call of after_push_work on s that reaches the flush step finds and
\* leaves as r: more than batch_size elements to pop from, a file to write to,
\* no panic but the one of a failed I/O call, and an element left in the queue.
FlushIsSafe(s, r) ==
    (~within_batch(s) /\ ~within_swap(s)) =>
        /\ Len(s.vector) > s.config.batch_size
        /\ pop_batch(s.vector, s.config.batch_size).ok
        /\ open_tempfile(s).cf.is_some
        /\ r.ret = "panic" => r.fault \in {"tempfile", "write", "flush"}
        /\ Len(r.vector) >= 1

\* C18: no call panics in pop_front().unwrap() or tempfile.as_mut().unwrap():
\* a panic is always that of a failed I/O call; every flush step, failing or
\* not, in push or in consume's second call, starts with more than batch_size
\* elements and with the file present, and once a flush step ran (the file
\* exists) the queue is never empty.
C18_FlushNeverUnwrapsNone ==
    /\ ret = "panic" => fault \in {"tempfile", "write", "flush"}
    /\ written_to_file => vector # <<>>
    /\ pc \in {"idle", "consume"} =>
         \A element \in Elems, flt1 \in Faults, flt2 \in Faults :
             LET s1 == [Self EXCEPT !.vector = Append(@, element)]
                 r1 == after_push_work(s1, flt1, 0)
                 r2 == after_push_work(r1, flt2, 0)
             IN /\ FlushIsSafe(s1, r1)
                /\ r1.ret = "Ok" => FlushIsSafe(r1, r2)

C18_Witness ==
    /\ written_to_file
    /\ batches_written = 2
    /\ Len(vector) = 1
    /\ ret = "Ok"
    /\ pc = "consume"

\* C19: with batch_size >= 1 the queue never holds more than
\* max(batch_size, swap_after) + 1 elements, also right after push_back and in a
\* call that failed, and it holds at most max(batch_size, swap_after) after
\* every push and every iteration of consume that succeeded.
C19_QueueBounded ==
    config.batch_size >= 1 =>
        /\ Len(vector) <= Threshold + 1
        /\ ret \in {"none", "Ok"} => Len(vector) <= Threshold
        /\ pc \in {"idle", "consume"} =>
             \A element \in Elems : Len(Append(vector, element)) <= Threshold + 1

C19_Witness ==
    /\ config.batch_size >= 1
    /\ config.swap_after > config.batch_size
    /\ written_to_file
    /\ ret = "Ok"
    /\ pc = "idle"
    /\ Len(vector) = Threshold

====
